---- MODULE Spec2Model ----
(***************************************************************************)
(* Model of python/npcomp/compiler/pytorch/backend/refjit.py:              *)
(* CompilerBackend (compile, compile_object_graph, load) and               *)
(* TorchJitModuleInvoker.__getitem__ with the closure it returns.          *)
(*                                                                         *)
(* The Python program is single threaded: one top-level call is in         *)
(* progress at a time and pc is its position (the source line about to     *)
(* run).  Everything the file calls in its collaborators (the MLIR context *)
(* manager, logging.debug, PassManager, the refjit backend, the inherited  *)
(* JitModuleInvoker) is recorded in call order in trace / itrace.          *)
(*                                                                         *)
(* A pipeline string is a sequence of tokens; ",".join puts a "," token    *)
(* between the entries and PassManager.parse splits at the "," tokens.     *)
(***************************************************************************)
EXTENDS Integers, Sequences, FiniteSets, TLC

\* ------------------------------------------------------------------ bounds

\* Top-level calls of compile / compile_object_graph in one behaviour.
MaxCalls == 2
\* Calls in one behaviour that a collaborator ends with an exception.
MaxFailures == 1
\* Longest argument tuple handed to an invoke closure.
MaxArgs == 2

\* ------------------------------------------------------- program constants

\* Variant: symbol-dce listed ahead of the globalization.
OBJECT_GRAPH_LOWERING_PASSES_DceFirst ==
  << "symbol-dce",
     "torch-globalize-pipeline",
     "torch-adjust-calling-conventions" >>

OBJECT_GRAPH_LOWERING_PASSES ==
  << "torch-globalize-pipeline",
     "symbol-dce",
     "torch-adjust-calling-conventions" >>

\* Variant: type refinement listed ahead of the first array-to-tensor
\* conversion.
TORCH_TO_TCF_PASSES_RefineEarly ==
  << "func(aten-recognize-kernels)",
     "numpy-public-functions-to-tensor",
     "func(torch-refine-types)",
     "func(numpy-array-to-tensor)",
     "numpy-refine-public-return",
     "func(numpy-array-to-tensor)",
     "func(convert-aten-to-tcf)" >>

TORCH_TO_TCF_PASSES ==
  << "func(aten-recognize-kernels)",
     "numpy-public-functions-to-tensor",
     "func(numpy-array-to-tensor)",
     "func(torch-refine-types)",
     "numpy-refine-public-return",
     "func(numpy-array-to-tensor)",
     "func(convert-aten-to-tcf)" >>

\* What self._refjit.build_backend_compilation_pipeline(pm) adds to pm: the
\* backend's own pipeline, opaque to this file.
BackendPipeline == << "refjit-backend-compilation-pipeline" >>

\* ------------------------------------------------------------ input domains

Backends == {"b1", "b2"}
Modules == {"m1", "m2"}
NoModule == "None"
NoJit == [module |-> NoModule, ir |-> << >>, serial |-> 0]

\* ---------------------------------------------------------------- helpers

\* ",".join(t)
RECURSIVE Join(_)
Join(t) ==
  IF t = << >> THEN << >>
  ELSE IF Len(t) = 1 THEN << t[1] >>
  ELSE << t[1], "," >> \o Join(Tail(t))

\* The pass list PassManager.parse builds from a pipeline string: the text
\* between the commas, in order.
RECURSIVE Parse(_)
Parse(s) ==
  IF s = << >> THEN << >>
  ELSE IF Head(s) = "," THEN Parse(Tail(s))
  ELSE << Head(s) >> \o Parse(Tail(s))

Event(op, text, m, snapshot) ==
  [op |-> op, text |-> text, module |-> m, ir |-> snapshot]

\* ------------------------------------------------------------------ state

VARIABLES
  debug,        \* debug[b]: self._debug of backend b, set by __init__
  ir,           \* ir[m]: the passes that have run to completion on module m
  created,      \* the JIT modules from_compiled_module has returned, in order
  pc,           \* position of the call in progress, "idle" between calls
  frames,       \* the methods of CompilerBackend on the Python stack
  entry,        \* the method the last top-level call entered
  self,         \* the backend the call in progress was made on
  imported_module,  \* its argument
  pipeline_str, \* local of compile / compile_object_graph
  pm,           \* local: the passes of the current PassManager
  jit_module,   \* local of compile
  trace,        \* calls made to collaborators by the last top-level call
  outcome,      \* "none" | "running" | "returned" | "raised"
  ret,          \* value returned: by the last top-level call, or by compile
                \* to line 157 while compile_object_graph is still running
  hist,         \* the finished top-level calls, in order
  invoker,      \* _jit_module of the invoker load returned last
  closure,      \* what the invoke closure returned last by __getitem__ holds
  itrace,       \* calls made by the last load / __getitem__ / invoke
  iret          \* value the last invoke returned

vars == << debug, ir, created, pc, frames, entry, self, imported_module, pipeline_str,
           pm, jit_module, trace, outcome, ret, hist, invoker, closure,
           itrace, iret >>

cvars == << invoker, closure, itrace, iret >>

NoClosure == [jit |-> NoJit, function_name |-> "None"]
NoValue == [type |-> "NoneType", data |-> "None"]

\* Arguments a caller hands to an invoke closure, and values the compiled
\* function hands back.
Values ==
  { [type |-> "torch.Tensor", data |-> "x"],
    [type |-> "torch.Tensor", data |-> "y"],
    [type |-> "numpy.ndarray", data |-> "x"],
    [type |-> "int", data |-> "7"] }
Results ==
  { [type |-> "numpy.ndarray", data |-> "r"],
    [type |-> "numpy.ndarray", data |-> "s"] }
ArgTuples == UNION { [1..n -> Values] : n \in 0..MaxArgs }
FunctionNames == {"forward", "helper"}
\* Compiled artifacts a caller may hand to load: what compile returns for a
\* freshly imported module.
JitModules ==
  { [module |-> m, ir |-> TORCH_TO_TCF_PASSES \o BackendPipeline, serial |-> 1] :
      m \in Modules }

\* CompilerBackend.__init__ has run on both backends, on b1 with debug
\* logging enabled and on b2 with it disabled; no call was made yet.
Init ==
  /\ debug = [b \in Backends |-> b = "b1"]
  /\ ir = [m \in Modules |-> << >>]
  /\ created = << >>
  /\ pc = "idle"
  /\ frames = << >>
  /\ entry = "None"
  /\ self = "b1"
  /\ imported_module = NoModule
  /\ pipeline_str = << >>
  /\ pm = << >>
  /\ jit_module = NoJit
  /\ trace = << >>
  /\ outcome = "none"
  /\ ret = NoJit
  /\ hist = << >>
  /\ invoker = NoJit
  /\ closure = NoClosure
  /\ itrace = << >>
  /\ iret = NoValue

\* ------------------------------------------------------- call and return

\* What no step inside a call changes.
callvars == << debug, entry, self, imported_module, cvars >>

\* Variant: the `if self._debug:` guard is missing.
Log_Unguarded(fmt, args, m) ==
  << Event("logging.debug", << fmt >> \o args, m,
           IF m = NoModule THEN << >> ELSE ir[m]) >>

\* logging.debug(fmt, args) under `if self._debug:`; a module argument is
\* formatted as its IR at the time of the call.
Log(fmt, args, m) ==
  IF debug[self]
  THEN << Event("logging.debug", << fmt >> \o args, m,
                IF m = NoModule THEN << >> ELSE ir[m]) >>
  ELSE << >>

ContextEnter == Event("context.__enter__", << >>, imported_module, << >>)
ContextExit == Event("context.__exit__", << >>, imported_module, << >>)
\* The moment a collaborator's call ends with an exception.
Raised == Event("raised", << >>, NoModule, << >>)

CallRecord(tr, oc, value) ==
  [self |-> self, entry |-> entry, module |-> imported_module,
   trace |-> tr, outcome |-> oc, ret |-> value]

\* The top-level call ends: it returned `value`, or an exception left it.
Finish(tr, oc, value) ==
  /\ trace' = tr
  /\ outcome' = oc
  /\ ret' = value
  /\ hist' = Append(hist, CallRecord(tr, oc, value))
  /\ pc' = "idle"
  /\ frames' = << >>
  /\ pipeline_str' = << >>
  /\ pm' = << >>
  /\ jit_module' = NoJit

\* An exception raised by a collaborator inside a `with
\* imported_module.context` block, after the calls `events`: the context
\* manager exits and the exception propagates; nothing in this file catches it.
Raise(events) ==
  /\ Finish(trace \o events \o << Raised, ContextExit >>, "raised", NoJit)
  /\ UNCHANGED << created, callvars >>

\* Whether one more call of this behaviour may end with an exception.
MayFail ==
  Cardinality({ c \in 1..Len(hist) : hist[c].outcome = "raised" }) < MaxFailures

\* The call goes on to line `to` after the calls `events`.
Advance(to, events) ==
  /\ pc' = to
  /\ trace' = trace \o events
  /\ UNCHANGED << outcome, ret, hist, callvars >>

\* The modules a client can hand over: those it compiled before and the one
\* it imports next; imported modules are named in the order of import.
Importable ==
  IF hist = << >> THEN {"m1"} ELSE Modules

\* A client calls method `method` of backend b on module m.
Call(b, m, method, first) ==
  /\ pc = "idle"
  /\ Len(hist) < MaxCalls
  /\ m \in Importable
  /\ self' = b
  /\ imported_module' = m
  /\ entry' = method
  /\ frames' = << method >>
  /\ pc' = first
  /\ trace' = << >>
  /\ outcome' = "running"
  /\ ret' = NoJit
  /\ UNCHANGED << debug, ir, created, pipeline_str, pm, jit_module, hist, cvars >>

CallCompile ==
  \E b \in Backends, m \in Modules : Call(b, m, "compile", "c109")

CallCompileObjectGraph ==
  \E b \in Backends, m \in Modules : Call(b, m, "compile_object_graph", "g146")

\* ------------------------------------------------------------ PassManager

\* pm = PassManager.parse(pipeline_str): the pass manager, or an exception.
PmParse(from, to) ==
  /\ pc = from
  /\ LET ev == << Event("PassManager.parse", pipeline_str, NoModule, << >>) >>
     IN \/ /\ pm' = Parse(pipeline_str)
           /\ Advance(to, ev)
           /\ UNCHANGED << ir, created, frames, pipeline_str, jit_module >>
        \/ /\ MayFail
           /\ Raise(ev)
           /\ UNCHANGED ir

Min(a, b) == IF a < b THEN a ELSE b

\* The passes pm.run starts when its first k passes succeed: those k and,
\* if there is one, the pass after them, which fails.  Each is recorded with
\* the passes that had run on the module before it.
PassEvents(k) ==
  [i \in 1..Min(k + 1, Len(pm)) |->
     Event("pass", << pm[i] >>, imported_module,
           ir[imported_module] \o SubSeq(pm, 1, i - 1))]

\* Variant: the exception of a failed run is caught and the call goes on.
PmRun_FailureIgnored(from, to) ==
  /\ pc = from
  /\ \E k \in 0..Len(pm) :
       LET ev == << Event("pm.run", Join(pm), imported_module, ir[imported_module]) >>
                 \o PassEvents(k)
                 \o (IF k = Len(pm) THEN << >> ELSE << Raised >>)
       IN /\ (k = Len(pm) \/ MayFail)
          /\ ir' = [ir EXCEPT ![imported_module] = @ \o SubSeq(pm, 1, k)]
          /\ Advance(to, ev)
          /\ UNCHANGED << created, frames, pipeline_str, pm, jit_module >>

\* pm.run(imported_module): the passes run in pipeline order; the first one
\* that fails ends the run with an exception.
PmRun(from, to) ==
  /\ pc = from
  /\ \E k \in 0..Len(pm) :
       LET ev == << Event("pm.run", Join(pm), imported_module, ir[imported_module]) >>
                 \o PassEvents(k)
       IN /\ ir' = [ir EXCEPT ![imported_module] = @ \o SubSeq(pm, 1, k)]
          /\ IF k = Len(pm)
             THEN /\ Advance(to, ev)
                  /\ UNCHANGED << created, frames, pipeline_str, pm, jit_module >>
             ELSE /\ MayFail
                  /\ Raise(ev)

\* ------------------------------------------------- CompilerBackend.compile

locals == << pipeline_str, pm, jit_module >>

\* with imported_module.context as context:
\*   if self._debug: logging.debug("Initial PyTorch IR:\n{}", imported_module)
Compile_With ==
  /\ pc = "c109"
  /\ Advance("c114", << ContextEnter >>
                     \o Log("Initial PyTorch IR:\n{}", << >>, imported_module))
  /\ UNCHANGED << ir, created, frames, locals >>

\* pipeline_str = ",".join(TORCH_TO_TCF_PASSES)
\* if self._debug: logging.debug("Running Torch->TCF pipeline '{}'", pipeline_str)
Compile_Join ==
  /\ pc = "c114"
  /\ pipeline_str' = Join(TORCH_TO_TCF_PASSES)
  /\ Advance("c117", Log("Running Torch->TCF pipeline '{}'",
                         Join(TORCH_TO_TCF_PASSES), NoModule))
  /\ UNCHANGED << ir, created, frames, pm, jit_module >>

\* pm = PassManager.parse(pipeline_str)
Compile_Parse == PmParse("c117", "c118")

\* pm.run(imported_module)
Compile_RunFrontend == PmRun("c118", "c119")

\* Variant: no new PassManager; the backend pipeline is added to the
\* frontend's.
Compile_NewPm_Reused ==
  /\ pc = "c119"
  /\ Advance("c125", Log("TCF IR:\n{}", << >>, imported_module))
  /\ UNCHANGED << ir, created, frames, pipeline_str, pm, jit_module >>

\* if self._debug: logging.debug("TCF IR:\n{}", imported_module)
\* pm = PassManager()
Compile_NewPm ==
  /\ pc = "c119"
  /\ pm' = << >>
  /\ Advance("c125", Log("TCF IR:\n{}", << >>, imported_module)
                     \o << Event("PassManager", << >>, NoModule, << >>) >>)
  /\ UNCHANGED << ir, created, frames, pipeline_str, jit_module >>

\* self._refjit.build_backend_compilation_pipeline(pm)
Compile_BuildBackend ==
  /\ pc = "c125"
  /\ pm' = pm \o BackendPipeline
  /\ Advance("c126", << Event("build_backend_compilation_pipeline", Join(pm),
                             NoModule, << >>) >>)
  /\ UNCHANGED << ir, created, frames, pipeline_str, jit_module >>

\* Variant: the backend run sits under `if self._debug:`.
Compile_RunBackend_OnlyInDebug ==
  IF debug[self]
  THEN PmRun("c126", "c127")
  ELSE /\ pc = "c126"
       /\ Advance("c127", << >>)
       /\ UNCHANGED << ir, created, frames, pipeline_str, pm, jit_module >>

\* pm.run(imported_module)
Compile_RunBackend == PmRun("c126", "c127")

\* if self._debug: logging.debug("Backend IR:\n{}", imported_module); the
\* `with` block ends.
Compile_EndWith ==
  /\ pc = "c127"
  /\ Advance("c130", Log("Backend IR:\n{}", << >>, imported_module)
                     \o << ContextExit >>)
  /\ UNCHANGED << ir, created, frames, locals >>

\* The object from_compiled_module builds from module m now.
NewJit(m) == [module |-> m, ir |-> ir[m], serial |-> Len(created) + 1]

\* jit_module = self._refjit.JITModule.from_compiled_module(
\*     imported_module, refjit_backend.get_runtime_libs())
Compile_FromCompiledModule ==
  /\ pc = "c130"
  /\ jit_module' = NewJit(imported_module)
  /\ created' = Append(created, NewJit(imported_module))
  /\ Advance("c132", << Event("get_runtime_libs", << >>, NoModule, << >>),
                        Event("from_compiled_module", << >>, imported_module,
                              ir[imported_module]) >>)
  /\ UNCHANGED << ir, frames, pipeline_str, pm >>

\* return jit_module: to the caller, or to line 157 of compile_object_graph.
Compile_Return ==
  /\ pc = "c132"
  /\ IF Len(frames) > 1
     THEN /\ frames' = SubSeq(frames, 1, Len(frames) - 1)
          /\ ret' = jit_module
          /\ pc' = "g157r"
          /\ pipeline_str' = << >>
          /\ pm' = << >>
          /\ jit_module' = NoJit
          /\ UNCHANGED << trace, outcome, hist, callvars >>
     ELSE /\ Finish(trace, "returned", jit_module)
          /\ UNCHANGED callvars
  /\ UNCHANGED << ir, created >>

\* ------------------------------------ CompilerBackend.compile_object_graph

\* with imported_module.context as context:
\*   if self._debug:
\*     logging.debug("Initial PyTorch object graph IR:\n{}", imported_module)
Graph_With ==
  /\ pc = "g146"
  /\ Advance("g151", << ContextEnter >>
                     \o Log("Initial PyTorch object graph IR:\n{}", << >>,
                            imported_module))
  /\ UNCHANGED << ir, created, frames, locals >>

\* pipeline_str = ",".join(OBJECT_GRAPH_LOWERING_PASSES)
\* if self._debug: logging.debug(
\*     "Running Torch object graph lowering pipeline '{}'", pipeline_str)
Graph_Join ==
  /\ pc = "g151"
  /\ pipeline_str' = Join(OBJECT_GRAPH_LOWERING_PASSES)
  /\ Advance("g155", Log("Running Torch object graph lowering pipeline '{}'",
                         Join(OBJECT_GRAPH_LOWERING_PASSES), NoModule))
  /\ UNCHANGED << ir, created, frames, pm, jit_module >>

\* pm = PassManager.parse(pipeline_str)
Graph_Parse == PmParse("g155", "g156")

\* pm.run(imported_module)
Graph_Run == PmRun("g156", "g157")

\* The `with` block ends; self.compile(imported_module) is called and its
\* frame starts with fresh locals.
Graph_CallCompile ==
  /\ pc = "g157"
  /\ frames' = Append(frames, "compile")
  /\ pc' = "c109"
  /\ trace' = Append(trace, ContextExit)
  /\ pipeline_str' = << >>
  /\ pm' = << >>
  /\ jit_module' = NoJit
  /\ UNCHANGED << ir, created, outcome, ret, hist, callvars >>

\* Variant: `self.compile(imported_module)` without the `return`.
Graph_Return_Dropped ==
  /\ pc = "g157r"
  /\ Finish(trace, "returned", NoJit)
  /\ UNCHANGED << ir, created, callvars >>

\* return self.compile(imported_module)
Graph_Return ==
  /\ pc = "g157r"
  /\ Finish(trace, "returned", ret)
  /\ UNCHANGED << ir, created, callvars >>

Next ==
  \/ CallCompile
  \/ CallCompileObjectGraph
  \/ Compile_With
  \/ Compile_Join
  \/ Compile_Parse
  \/ Compile_RunFrontend
  \/ Compile_NewPm
  \/ Compile_BuildBackend
  \/ Compile_RunBackend
  \/ Compile_EndWith
  \/ Compile_FromCompiledModule
  \/ Compile_Return
  \/ Graph_With
  \/ Graph_Join
  \/ Graph_Parse
  \/ Graph_Run
  \/ Graph_CallCompile
  \/ Graph_Return

Spec == Init /\ [][Next]_vars

\* --------------------------------- CompilerBackend.load, TorchJitModuleInvoker

IEvent(op, jit, f, args, value) ==
  [op |-> op, jit |-> jit, function_name |-> f, args |-> args, value |-> value]

\* isinstance(arg, torch.Tensor)
IsTensor(arg) == arg.type = "torch.Tensor"

\* arg.numpy(): the array holding the tensor's data.
Numpy(arg) == [type |-> "numpy.ndarray", data |-> arg.data]

\* Variant: arg.numpy() on every argument, without the isinstance test.
ConvertArgs_NoTypeTest(args) ==
  [i \in 1..Len(args) |-> Numpy(args[i])]

\* tuple(arg.numpy() if isinstance(arg, torch.Tensor) else arg for arg in args)
RECURSIVE ConvertArgs(_)
ConvertArgs(args) ==
  IF args = << >> THEN << >>
  ELSE << IF IsTensor(Head(args)) THEN Numpy(Head(args)) ELSE Head(args) >>
       \o ConvertArgs(Tail(args))

\* The inherited JitModuleInvoker (npcomp.compiler.generic.backend.refjit):
\* its constructor keeps the JIT module it is given, and its __getitem__
\* returns, without running anything, the callable that runs the named
\* function of that module.
JitModuleInvoker_Init(jit) == jit
JitModuleInvoker_GetItem(jit, f) == [jit |-> jit, function_name |-> f]

\* load(jit_module): return TorchJitModuleInvoker(jit_module); the class has
\* no __init__ of its own, so the inherited one receives jit_module.
Load ==
  /\ pc = "idle"
  /\ \E j \in JitModules :
       /\ invoker' = JitModuleInvoker_Init(j)
       /\ itrace' = << IEvent("load", j, "None", << >>, NoValue),
                       IEvent("JitModuleInvoker.__init__", j, "None", << >>, NoValue) >>
  /\ UNCHANGED << debug, ir, created, pc, frames, entry, self, imported_module,
                  pipeline_str, pm, jit_module, trace, outcome, ret, hist,
                  closure, iret >>

\* Variant: __getitem__ calls numpy_invoke itself instead of returning the
\* closure that will.
GetItem_Eager ==
  /\ pc = "idle"
  /\ invoker # NoJit
  /\ \E f \in FunctionNames, r \in Results :
       /\ closure' = JitModuleInvoker_GetItem(invoker, f)
       /\ itrace' = << IEvent("__getitem__", invoker, f, << >>, NoValue),
                       IEvent("JitModuleInvoker.__getitem__", invoker, f, << >>, NoValue),
                       IEvent("numpy_invoke", invoker, f, << >>, r) >>
  /\ UNCHANGED << debug, ir, created, pc, frames, entry, self, imported_module,
                  pipeline_str, pm, jit_module, trace, outcome, ret, hist,
                  invoker, iret >>

\* invoker[function_name]: numpy_invoke = super().__getitem__(function_name),
\* then the closure `invoke` holding numpy_invoke is returned.
GetItem ==
  /\ pc = "idle"
  /\ invoker # NoJit
  /\ \E f \in FunctionNames :
       /\ closure' = JitModuleInvoker_GetItem(invoker, f)
       /\ itrace' = << IEvent("__getitem__", invoker, f, << >>, NoValue),
                       IEvent("JitModuleInvoker.__getitem__", invoker, f, << >>, NoValue) >>
  /\ UNCHANGED << debug, ir, created, pc, frames, entry, self, imported_module,
                  pipeline_str, pm, jit_module, trace, outcome, ret, hist,
                  invoker, iret >>

\* invoke(*args): convert the arguments, call numpy_invoke with them and
\* return what it returns (r, chosen by the compiled function).
Invoke ==
  /\ pc = "idle"
  /\ closure # NoClosure
  /\ \E args \in ArgTuples, r \in Results :
       /\ itrace' = << IEvent("invoke", closure.jit, closure.function_name, args, NoValue),
                       IEvent("numpy_invoke", closure.jit, closure.function_name,
                              ConvertArgs(args), r) >>
       /\ iret' = r
  /\ UNCHANGED << debug, ir, created, pc, frames, entry, self, imported_module,
                  pipeline_str, pm, jit_module, trace, outcome, ret, hist,
                  invoker, closure >>

InvokerNext ==
  \/ Load
  \/ GetItem
  \/ Invoke

InvokerSpec == Init /\ [][InvokerNext]_vars

\* ------------------------------------------------------------- properties

\* What the properties read off a trace.
Idx(tr, op) == { i \in 1..Len(tr) : tr[i].op = op }
Filter(tr, ops) == SelectSeq(tr, LAMBDA e : e.op \in ops)
Strip(tr) == [i \in 1..Len(tr) |-> << tr[i].op, tr[i].text, tr[i].module >>]
Texts(tr) == [i \in 1..Len(tr) |-> tr[i].text[1]]
PassNames(tr) == Texts(Filter(tr, {"pass"}))
Before(tr, i) == SubSeq(tr, 1, i - 1)
From(tr, i) == SubSeq(tr, i, Len(tr))
Suffix(s, n) == SubSeq(s, Len(s) - n + 1, Len(s))
IsPrefix(s, t) == Len(s) <= Len(t) /\ s = SubSeq(t, 1, Len(s))
InOrder(s, a, b) == \E i, j \in 1..Len(s) : i < j /\ s[i] = a /\ s[j] = b
Count(s, a) == Cardinality({ i \in 1..Len(s) : s[i] = a })
FirstOf(S) == CHOOSE i \in S : \A j \in S : i <= j
LogAt(tr, fmt) == { i \in Idx(tr, "logging.debug") : tr[i].text[1] = fmt }

\* The pipelines as the documentation of the file states them.
LoweringNames ==
  << "torch-globalize-pipeline", "symbol-dce", "torch-adjust-calling-conventions" >>
LoweringString ==
  << "torch-globalize-pipeline", ",", "symbol-dce", ",",
     "torch-adjust-calling-conventions" >>
FrontendNames ==
  << "func(aten-recognize-kernels)", "numpy-public-functions-to-tensor",
     "func(numpy-array-to-tensor)", "func(torch-refine-types)",
     "numpy-refine-public-return", "func(numpy-array-to-tensor)",
     "func(convert-aten-to-tcf)" >>
FrontendString ==
  << "func(aten-recognize-kernels)", ",", "numpy-public-functions-to-tensor", ",",
     "func(numpy-array-to-tensor)", ",", "func(torch-refine-types)", ",",
     "numpy-refine-public-return", ",", "func(numpy-array-to-tensor)", ",",
     "func(convert-aten-to-tcf)" >>
BackendNames == << "refjit-backend-compilation-pipeline" >>
CompiledNames == FrontendNames \o BackendNames
StageOps == {"PassManager.parse", "pm.run", "from_compiled_module"}
WorkOps ==
  StageOps \cup {"pass", "PassManager", "build_backend_compilation_pipeline",
                 "get_runtime_libs", "context.__enter__", "context.__exit__"}
Seq2Set(s) == { s[i] : i \in 1..Len(s) }

\* The stages of one compile(m) in which nothing fails.
CompileStages(m) ==
  << << "PassManager.parse", FrontendString, NoModule >>,
     << "pm.run", FrontendString, m >>,
     << "pm.run", BackendNames, m >>,
     << "from_compiled_module", << >>, m >> >>

\* The part of a compile_object_graph trace that compile produced: what
\* follows the end of the lowering `with` block.
AfterLowering(tr) ==
  IF Idx(tr, "context.__exit__") = {} THEN << >>
  ELSE From(tr, FirstOf(Idx(tr, "context.__exit__")) + 1)

\* (C1) A compile(m) in which no stage fails makes, in this order and once
\* each, the frontend run on m (the 7 entries of TORCH_TO_TCF_PASSES joined
\* in tuple order), the backend run on m and from_compiled_module on m; it
\* returns the object from_compiled_module returned; and no JIT module is
\* ever created before both runs have finished on the module.
C1_CompileStagesInOrder ==
  /\ (entry = "compile" /\ outcome = "returned") =>
       /\ Strip(Filter(trace, StageOps)) = CompileStages(imported_module)
       /\ PassNames(trace) = CompiledNames
       /\ created # << >>
       /\ ret = created[Len(created)]
       /\ ret.module = imported_module
       /\ ret # NoJit
  /\ \A i \in Idx(trace, "from_compiled_module") :
       LET earlier == PassNames(Before(trace, i))
       IN /\ Cardinality(Idx(Before(trace, i), "pm.run")) >= 2
          /\ Len(earlier) >= Len(CompiledNames)
          /\ Suffix(earlier, Len(CompiledNames)) = CompiledNames
          /\ Len(trace[i].ir) >= Len(CompiledNames)
          /\ Suffix(trace[i].ir, Len(CompiledNames)) = CompiledNames

C1_Witness ==
  /\ entry = "compile"
  /\ outcome = "returned"
  /\ Idx(trace, "from_compiled_module") # {}

\* (C2) A compile_object_graph(m) in which no stage fails completes the run of
\* torch-globalize-pipeline, symbol-dce, torch-adjust-calling-conventions on m
\* before the first frontend pass starts, then does what compile(m) does
\* (same calls in the same order as a compile on the same backend and module)
\* and returns what that compile returns.
C2_GraphThenCompile ==
  /\ (entry = "compile_object_graph" /\ Idx(trace, "pass") # {}) =>
       LET first == FirstOf(Idx(trace, "pass"))
       IN \A i \in Idx(trace, "pass") :
            trace[i].text[1] \in Seq2Set(FrontendNames) =>
              LET earlier == PassNames(Before(trace, i))
              IN /\ IsPrefix(LoweringNames, earlier)
                 /\ Strip(Filter(Before(trace, first), {"pm.run"}))
                      = << << "pm.run", LoweringString, imported_module >> >>
                 /\ Len(trace[i].ir) >= Len(earlier)
                 /\ Suffix(trace[i].ir, Len(earlier)) = earlier
  /\ (entry = "compile_object_graph" /\ outcome = "returned") =>
       LET rest == AfterLowering(trace)
       IN /\ Strip(Filter(rest, StageOps)) = CompileStages(imported_module)
          /\ PassNames(rest) = CompiledNames
          /\ created # << >>
          /\ ret = created[Len(created)]
          /\ ret.module = imported_module
  /\ pc = "idle" =>
       \A a, c \in 1..Len(hist) :
         ( /\ hist[a].entry = "compile_object_graph"
           /\ hist[c].entry = "compile"
           /\ hist[a].outcome = "returned"
           /\ hist[c].outcome = "returned"
           /\ hist[a].self = hist[c].self
           /\ hist[a].module = hist[c].module ) =>
             /\ Strip(AfterLowering(hist[a].trace)) = Strip(hist[c].trace)
             /\ hist[a].ret.module = hist[c].ret.module
             /\ hist[a].ret # NoJit

C2_Witness ==
  \E a, c \in 1..Len(hist) :
    /\ hist[a].entry = "compile_object_graph"
    /\ hist[c].entry = "compile"
    /\ hist[a].outcome = "returned"
    /\ hist[c].outcome = "returned"
    /\ hist[a].self = hist[c].self
    /\ hist[a].module = hist[c].module

\* (C5) There is no failure recovery: when a pipeline parse or a pass-manager
\* run fails, nothing but the exit of the `with` block follows, the call ends
\* with the exception, the failed stage was called once, no JIT module is
\* created and none is returned.
C5_FailurePropagates ==
  /\ \A i \in Idx(trace, "raised") :
       /\ i > 1
       /\ trace[i - 1].op \in {"PassManager.parse", "pass"}
       /\ From(trace, i) = << Raised, ContextExit >>
       /\ pc = "idle"
       /\ outcome = "raised"
       /\ ret = NoJit
       /\ Idx(trace, "from_compiled_module") = {}
       /\ LET stages == Idx(Before(trace, i), "PassManager.parse")
                          \cup Idx(Before(trace, i), "pm.run")
              failed == CHOOSE j \in stages : \A k \in stages : k <= j
              calls == Strip(trace)
          IN Cardinality({ j \in 1..Len(calls) : calls[j] = calls[failed] }) = 1
       /\ hist # << >>
       /\ hist[Len(hist)].outcome = "raised"
       /\ hist[Len(hist)].ret = NoJit
  /\ outcome = "raised" => Idx(trace, "raised") # {}
  /\ pc = "idle" =>
       \A c \in 1..Len(hist) :
         Idx(hist[c].trace, "raised") # {} =>
           hist[c].outcome = "raised" /\ hist[c].ret = NoJit

C5_Witness ==
  /\ entry = "compile_object_graph"
  /\ outcome = "raised"
  /\ \E i \in Idx(trace, "raised") :
       trace[i - 1].op = "pass" /\ trace[i - 1].text[1] = "func(torch-refine-types)"

\* Whether a pass of the frontend or backend pipeline.
IsCompilePass(e) ==
  e.op = "pass" /\ e.text[1] \in Seq2Set(FrontendNames) \cup Seq2Set(BackendNames)

\* (C6, as stated) Whenever a pass of TORCH_TO_TCF_PASSES or of the backend
\* pipeline runs on a module, in compile and in compile_object_graph alike,
\* torch-globalize-pipeline and then symbol-dce have already run on that
\* module.
C6_AsStated ==
  \A i \in 1..Len(trace) :
    IsCompilePass(trace[i]) =>
      InOrder(trace[i].ir, "torch-globalize-pipeline", "symbol-dce")

\* (C6, amended) Within a call of compile_object_graph, whenever a pass of
\* TORCH_TO_TCF_PASSES or of the backend pipeline runs on the module,
\* torch-globalize-pipeline and then symbol-dce have already run to
\* completion on that module in the same call.
C6_GraphEntryGlobalizes ==
  entry = "compile_object_graph" =>
    \A i \in 1..Len(trace) :
      IsCompilePass(trace[i]) =>
        LET earlier == PassNames(Before(trace, i))
        IN /\ InOrder(earlier, "torch-globalize-pipeline", "symbol-dce")
           /\ Len(trace[i].ir) >= Len(earlier)
           /\ Suffix(trace[i].ir, Len(earlier)) = earlier

C6_Witness ==
  /\ entry = "compile_object_graph"
  /\ \E i \in 1..Len(trace) :
       trace[i].op = "pass" /\ trace[i].text[1] \in Seq2Set(BackendNames)

\* The part of the last call's trace that compile produced.
CompilePart ==
  IF entry = "compile_object_graph" THEN AfterLowering(trace) ELSE trace

\* The pass events that follow the run at position r of cp.
RunEvents(cp, r) ==
  LET rest == From(cp, r + 1)
      stops == { i \in 1..Len(rest) : rest[i].op # "pass" }
  IN IF stops = {} THEN rest ELSE Before(rest, FirstOf(stops))

\* Whether the run at position r of cp, with n pass events, went through.
RunDone(cp, r, n) ==
  Len(cp) > r + n /\ cp[r + n + 1].op # "raised"

\* (C7) In every frontend run of compile: func(aten-recognize-kernels) is
\* first; numpy-public-functions-to-tensor runs before the first
\* func(numpy-array-to-tensor); func(torch-refine-types) runs after a
\* func(numpy-array-to-tensor) and before numpy-refine-public-return;
\* func(numpy-array-to-tensor) runs exactly twice, once before
\* func(torch-refine-types) and once after numpy-refine-public-return;
\* func(convert-aten-to-tcf) runs exactly once, last, and before every
\* backend pass.
C7_FrontendPrecedences ==
  LET cp == CompilePart
      runs == Idx(cp, "pm.run")
  IN runs # {} =>
       LET r == FirstOf(runs)
           P == Texts(RunEvents(cp, r))
           a2t == "func(numpy-array-to-tensor)"
           rt == "func(torch-refine-types)"
           rpr == "numpy-refine-public-return"
           conv == "func(convert-aten-to-tcf)"
       IN /\ P # << >> => P[1] = "func(aten-recognize-kernels)"
          /\ RunDone(cp, r, Len(P)) =>
               /\ \E i \in 1..Len(P) :
                    /\ P[i] = "numpy-public-functions-to-tensor"
                    /\ \A j \in 1..Len(P) : P[j] = a2t => i < j
               /\ \E i, j, k \in 1..Len(P) :
                    i < j /\ j < k /\ P[i] = a2t /\ P[j] = rt /\ P[k] = rpr
               /\ Count(P, a2t) = 2
               /\ InOrder(P, a2t, rt)
               /\ InOrder(P, rpr, a2t)
               /\ Count(P, conv) = 1
               /\ P[Len(P)] = conv
               /\ \A i \in 1..Len(cp) :
                    ( /\ cp[i].op = "pass"
                      /\ cp[i].text[1] \in Seq2Set(BackendNames) ) =>
                        i > r + Len(P)

C7_Witness ==
  /\ entry = "compile"
  /\ outcome = "returned"
  /\ Len(RunEvents(trace, FirstOf(Idx(trace, "pm.run")))) = 7
  /\ \E i \in 1..Len(trace) :
       trace[i].op = "pass" /\ trace[i].text[1] \in Seq2Set(BackendNames)

\* What a debug log call or a stage shows in the order of a trace.
Mark(e) ==
  IF e.op = "logging.debug" THEN e.text[1] ELSE e.op
Marks(tr) ==
  LET t == Filter(tr, {"logging.debug", "pm.run", "pass", "from_compiled_module"})
  IN [i \in 1..Len(t) |-> Mark(t[i])]
CompileMarks ==
  << "Initial PyTorch IR:\n{}", "Running Torch->TCF pipeline '{}'", "pm.run",
     "pass", "pass", "pass", "pass", "pass", "pass", "pass",
     "TCF IR:\n{}", "pm.run", "pass", "Backend IR:\n{}", "from_compiled_module" >>
GraphMarks ==
  << "Initial PyTorch object graph IR:\n{}",
     "Running Torch object graph lowering pipeline '{}'", "pm.run",
     "pass", "pass", "pass" >>
ExpectedMarks ==
  IF entry = "compile_object_graph" THEN GraphMarks \o CompileMarks ELSE CompileMarks
\* The IR a log call shows is the IR the next stage starts from.
ShowsInputOf(tr, fmt, i) ==
  \E l \in LogAt(Before(tr, i), fmt) : tr[l].ir = tr[i].ir /\ tr[l].module = tr[i].module

\* (C8) With debug logging enabled, compile logs the initial IR before any of
\* its passes runs, the frontend pipeline string before the frontend run, the
\* TCF IR between the frontend and the backend run, and the backend IR
\* between the backend run and the creation of the JIT module;
\* compile_object_graph logs, before that, the initial object-graph IR and
\* the lowering pipeline string ahead of the lowering run.  With debug
\* logging disabled no debug log call is made.
C8_DebugLogOrder ==
  /\ (entry # "None" /\ ~debug[self]) => Idx(trace, "logging.debug") = {}
  /\ (entry # "None" /\ debug[self]) =>
       LET cp == CompilePart
           runs == Idx(cp, "pm.run")
           marks == Marks(trace)
       IN /\ IsPrefix(marks, ExpectedMarks)
          /\ outcome = "returned" => marks = ExpectedMarks
          /\ \A i \in runs :
               IF i = FirstOf(runs)
               THEN /\ ShowsInputOf(cp, "Initial PyTorch IR:\n{}", i)
                    /\ \E l \in LogAt(Before(cp, i), "Running Torch->TCF pipeline '{}'") :
                         cp[l].text = << "Running Torch->TCF pipeline '{}'" >>
                                      \o FrontendString
               ELSE ShowsInputOf(cp, "TCF IR:\n{}", i)
          /\ \A i \in Idx(cp, "from_compiled_module") :
               ShowsInputOf(cp, "Backend IR:\n{}", i)
          /\ (entry = "compile_object_graph" /\ Idx(trace, "pm.run") # {}) =>
               LET r == FirstOf(Idx(trace, "pm.run"))
               IN /\ ShowsInputOf(trace, "Initial PyTorch object graph IR:\n{}", r)
                  /\ \E l \in LogAt(Before(trace, r),
                                    "Running Torch object graph lowering pipeline '{}'") :
                       trace[l].text
                         = << "Running Torch object graph lowering pipeline '{}'" >>
                           \o LoweringString

C8_Witness ==
  /\ entry = "compile_object_graph"
  /\ debug[self]
  /\ outcome = "returned"
  /\ Cardinality(Idx(trace, "logging.debug")) = 6

\* What a call makes its collaborators do, logging aside.
Work(tr) == Strip(Filter(tr, WorkOps))
Started(tr) == Strip(Filter(tr, WorkOps \ {"context.__exit__"}))

\* (C9) The debug flag does not influence compilation: two calls of the same
\* entry point on the same module, made on backends that differ in _debug,
\* make the same pipeline runs (same passes, same order, same number of
\* pass-manager runs) and the same JIT module creation call; as far as both
\* got, they made the same calls.
C9_DebugDoesNotInfluence ==
  pc = "idle" =>
    \A a, c \in 1..Len(hist) :
      ( /\ hist[a].entry = hist[c].entry
        /\ hist[a].module = hist[c].module
        /\ debug[hist[a].self] # debug[hist[c].self] ) =>
          LET sa == Started(hist[a].trace)
              sc == Started(hist[c].trace)
          IN /\ IsPrefix(sa, sc) \/ IsPrefix(sc, sa)
             /\ (hist[a].outcome = "returned" /\ hist[c].outcome = "returned") =>
                  /\ Work(hist[a].trace) = Work(hist[c].trace)
                  /\ hist[a].ret.module = hist[c].ret.module

C9_Witness ==
  \E a, c \in 1..Len(hist) :
    /\ hist[a].entry = "compile_object_graph"
    /\ hist[c].entry = "compile_object_graph"
    /\ hist[a].module = hist[c].module
    /\ debug[hist[a].self] # debug[hist[c].self]
    /\ hist[a].outcome = "returned"
    /\ hist[c].outcome = "returned"

\* (C3) invoker[f](a1..an) calls the inherited invoker's function for f with
\* n arguments in the same order, ai.numpy() in place of each torch.Tensor
\* and every other argument itself, and returns what that function returns.
C3_ArgumentsConverted ==
  /\ (itrace # << >> /\ itrace[1].op = "__getitem__") =>
       /\ closure.function_name = itrace[1].function_name
       /\ closure.jit = itrace[1].jit
  /\ (itrace # << >> /\ itrace[1].op = "invoke") =>
       LET given == itrace[1].args
           call == itrace[Len(itrace)]
       IN /\ call.op = "numpy_invoke"
          /\ call.function_name = closure.function_name
          /\ call.jit = closure.jit
          /\ Len(call.args) = Len(given)
          /\ \A i \in 1..Len(given) :
               call.args[i] =
                 IF given[i].type = "torch.Tensor"
                 THEN [type |-> "numpy.ndarray", data |-> given[i].data]
                 ELSE given[i]
          /\ iret = call.value

C3_Witness ==
  /\ itrace # << >>
  /\ itrace[1].op = "invoke"
  /\ Len(itrace[1].args) = 2
  /\ itrace[1].args[1].type = "int"
  /\ itrace[1].args[2].type = "torch.Tensor"

\* (C4) load(j) returns an invoker wrapping exactly j, runs no pass pipeline
\* and creates no JIT module; invoker[f] does not execute f; each call of the
\* closure it returned executes the function for f exactly once.
C4_LoadAndLookupDoNotExecute ==
  /\ (itrace # << >> /\ itrace[1].op = "load") =>
       /\ invoker = itrace[1].jit
       /\ [i \in 1..Len(itrace) |-> itrace[i].op] = << "load", "JitModuleInvoker.__init__" >>
       /\ itrace[2].jit = itrace[1].jit
       /\ trace = << >>
       /\ created = << >>
       /\ ir = [m \in Modules |-> << >>]
  /\ (itrace # << >> /\ itrace[1].op = "__getitem__") =>
       /\ Idx(itrace, "numpy_invoke") = {}
       /\ itrace[1].jit = invoker
  /\ (itrace # << >> /\ itrace[1].op = "invoke") =>
       /\ Cardinality(Idx(itrace, "numpy_invoke")) = 1
       /\ \A i \in Idx(itrace, "numpy_invoke") :
            /\ itrace[i].function_name = closure.function_name
            /\ itrace[i].jit = closure.jit
  /\ closure # NoClosure => closure.jit \in JitModules

C4_Witness ==
  /\ itrace # << >>
  /\ itrace[1].op = "invoke"
  /\ closure.jit # invoker
  /\ closure.function_name = "helper"

====
